---- MODULE Spec2Model ----
(***************************************************************************)
(* State-machine model of the RAG API in src/api/main.py: the /upload      *)
(* handler (upload_file, process_document) and the /chat handler           *)
(* (chat_with_docs), over the shared vector store and the temporary upload *)
(* directory.                                                              *)
(*                                                                         *)
(* Text is modelled as a sequence of lines (Python strings are built with  *)
(* TLC's string concatenation), a metadata mapping as a function from      *)
(* field names to strings, and Python's None as the sentinel None.         *)
(*                                                                         *)
(* Both handlers are "async def" bodies without an await, so one server    *)
(* process runs a handler from start to end before it takes the next       *)
(* request.  A worker of the model is one server process.  Spec is the     *)
(* deployment with one process; SpecMW is the deployment with several      *)
(* processes over the same directories, where the steps of two handlers    *)
(* interleave at their file-system and vector-store calls.                 *)
(***************************************************************************)
EXTENDS Integers, Sequences, FiniteSets, TLC

\* ---- bounds of the model ----
\* uploads are admitted while fewer than MaxStored chunks are stored
MaxStored == 2
\* server processes of the multi-process deployment
MaxWorkers == 2

\* ---- program constants ----
\* search_kwargs={"k": 5}
K == 5

None == "<None>"
\* a form field the client did not send
Missing == "<missing>"

VARIABLES
  llm,           \* module global llm: TRUE when constructed, FALSE when None
  embeddings,    \* module global embeddings: TRUE when constructed, FALSE when None
  vectorstore,   \* the records persisted in the Chroma collection, in insertion order
  temp_uploads,  \* TEMP_UPLOAD_DIR: file name -> content of the file
  pc,            \* per worker: position of the handler it is running
  request,       \* per worker: the request being handled
  docs,          \* per worker: docs (upload) or retrieved_docs (chat)
  context,       \* per worker: context_with_metadata
  sources,       \* per worker: sources
  response,      \* per worker: the HTTP response (pending until pc = "done")
  inserted,      \* per worker: the records this request added to the store
  calls,         \* per worker: the external components this request has invoked
  invoked,       \* per worker: the contexts handed to document_chain.invoke
  failed         \* per worker: the failure of an external service this request met, or ""

vars == <<llm, embeddings, vectorstore, temp_uploads, pc, request, docs,
          context, sources, response, inserted, calls, invoked, failed>>

Workers == DOMAIN pc

Min(a, b) == IF a <= b THEN a ELSE b

\* ---------------------------------------------------------------------
\* Python helpers
\* ---------------------------------------------------------------------

EmptyMap == [k \in {} |-> None]

\* dict.get(key, default)
Get(m, k, default) == IF k \in DOMAIN m THEN m[k] ELSE default

\* truth value of a str-or-None
Truthy(v) == v # None /\ v # ""

\* str.lower() on the extensions that occur
Lower(s) ==
  CASE s = "PDF" -> "pdf"
    [] s = "MD" -> "md"
    [] s = "DOCX" -> "docx"
    [] s = "TXT" -> "txt"
    [] OTHER -> s

\* sep.join(items) for a list of str
RECURSIVE Join(_, _)
Join(sep, items) ==
  IF Len(items) = 0 THEN ""
  ELSE IF Len(items) = 1 THEN items[1]
  ELSE items[1] \o sep \o Join(sep, Tail(items))

\* ---------------------------------------------------------------------
\* Inputs
\* ---------------------------------------------------------------------

\* A file name is the sequence of its dot-separated parts.
APdf == <<"a", "pdf">>
BMd == <<"b", "MD">>
NDocx == <<"n", "docx">>
CTxt == <<"c", "txt">>

\* An uploaded file: its name and its bytes (named by what they hold).
Files ==
  { [filename |-> APdf, content |-> "pdf_2pages"],
    [filename |-> BMd, content |-> "md_1section"],
    [filename |-> NDocx, content |-> "docx_2paragraphs"],
    [filename |-> CTxt, content |-> "txt"] }

\* The keywords form field, a JSON text, by what json.loads makes of it.
KwEmpty == [json |-> "list", items |-> << >>]
KwTwo == [json |-> "list", items |-> <<[t |-> "str", v |-> "finance"], [t |-> "str", v |-> "2024"]>>]
KwMalformed == [json |-> "malformed", items |-> << >>]
KwObject == [json |-> "object", items |-> << >>]
KwNumbers == [json |-> "list", items |-> <<[t |-> "int", v |-> "1"]>>]

GoodKeywords == {KwEmpty, KwTwo}
BadKeywords == {KwMalformed, KwObject, KwNumbers}

Titles == {"Q3 Report", "Handbook"}
Links == {None, "", "http://l"}

ValidForms ==
  [file : {f \in Files : f.filename # CTxt}, title : Titles, link : Links,
   keywords : GoodKeywords]

\* Forms with at least one caller-input error.
InvalidForms ==
  [file : {f \in Files : f.filename \in {APdf, CTxt}}, title : {"Q3 Report", Missing},
   link : {None}, keywords : {KwTwo} \cup BadKeywords] \ ValidForms

UploadForms == ValidForms \cup InvalidForms

\* Uploads of the multi-process deployment: two different files of one name.
ConcurrentForms ==
  [file : { [filename |-> APdf, content |-> "pdf_2pages"],
            [filename |-> APdf, content |-> "pdf_1page"],
            [filename |-> BMd, content |-> "md_1section"] },
   title : {"Q3 Report"}, link : {None}, keywords : {KwTwo}]

Queries == {"q1", "q2"}

NoRequest == [kind |-> "none"]
NoResponse == [status |-> 0, detail |-> "", sources |-> << >>]

\* ---------------------------------------------------------------------
\* upload_file and process_document
\* ---------------------------------------------------------------------

\* file.filename as the client sent it
Name(parts) == Join(".", parts)

\* os.path.join(TEMP_UPLOAD_DIR, file.filename): the directory is fixed, so
\* a path is named by the file name
file_path(form) == Name(form.file.filename)

\* file.filename.split('.')[-1].lower()
file_extension(form) == Lower(form.file.filename[Len(form.file.filename)])

\* json.loads(keywords) followed by the isinstance(keywords_list, list) test:
\* FALSE when the inner try raises (JSONDecodeError or ValueError)
keywords_ok(form) == form.keywords.json = "list"

keywords_list(form) == form.keywords.items

\* "; ".join(keywords_list) raises TypeError on an item that is not a str
join_ok(form) == \A i \in 1..Len(keywords_list(form)) : keywords_list(form)[i].t = "str"

custom_metadata(form) ==
  [k \in {"title", "link", "filename", "keywords"} |->
     CASE k = "title" -> form.title
       [] k = "link" -> form.link
       [] k = "filename" -> Name(form.file.filename)
       [] OTHER -> Join("; ", [i \in 1..Len(keywords_list(form)) |-> keywords_list(form)[i].v])]

\* the if/elif chain of process_document: the loader class, or "ValueError"
loader_for(file_type) ==
  CASE file_type = "pdf" -> "PyPDFLoader"
    [] file_type = "docx" -> "UnstructuredWordDocumentLoader"
    [] file_type = "md" -> "UnstructuredMarkdownLoader"
    [] OTHER -> "ValueError"

\* Mutant of except_Exception: the clause swallows the exception and the
\* handler falls through to its success return.
except_swallowed(e) == [status |-> 200, detail |-> "success", sources |-> << >>]

\* The response of upload_file's "except Exception as e" clause.
except_Exception(e) == [status |-> 500, detail |-> "An error occurred: " \o e, sources |-> << >>]

\* An exception that leaves the handler (raised in "finally", or in a
\* handler without a try): the framework answers 500.
unhandled(e) == [status |-> 500, detail |-> "Internal Server Error", sources |-> << >>]

\* FastAPI's answer to a request without the required form field title
validation_error == [status |-> 422, detail |-> "Field required", sources |-> << >>]

upload_success == [status |-> 200, detail |-> "success", sources |-> << >>]

\* What loader.load() returns for a file: one Document per page or
\* section, each with the loader's own metadata.
PdfMeta(page) == ("source" :> "temp_uploads") @@ ("page" :> page) @@ ("title" :> "embedded")
FileMeta == ("source" :> "temp_uploads")

Document(text, meta) == [page_content |-> text, metadata |-> meta]

load(content) ==
  CASE content = "pdf_2pages" -> <<Document(<<"s1">>, PdfMeta("0")), Document(<<"s2">>, PdfMeta("1"))>>
    [] content = "pdf_1page" -> <<Document(<<"s3">>, PdfMeta("0"))>>
    [] content = "md_1section" -> <<Document(<<"s3">>, FileMeta)>>
    [] content = "docx_2paragraphs" -> <<Document(<<"s1", "s2">>, FileMeta)>>
    [] OTHER -> << >>

\* Mutant of update: dict.setdefault per field, existing fields win.
update_keeps_existing(m, other) ==
  [k \in DOMAIN m \cup DOMAIN other |-> IF k \in DOMAIN m THEN m[k] ELSE other[k]]

\* dict.update: the fields of other replace the same-named fields of m
update(m, other) ==
  [k \in DOMAIN m \cup DOMAIN other |-> IF k \in DOMAIN other THEN other[k] ELSE m[k]]

\* for doc in documents: doc.metadata.update(custom_metadata)
annotate(documents, custom) ==
  [i \in 1..Len(documents) |->
     Document(documents[i].page_content, update(documents[i].metadata, custom))]

\* text_splitter.split_documents: every line of a document's text stands
\* for one span of at most chunk_size characters; each becomes a chunk
\* with a copy of the document's metadata.
RECURSIVE split_documents(_)
split_documents(documents) ==
  IF Len(documents) = 0 THEN << >>
  ELSE [i \in 1..Len(documents[1].page_content) |->
          Document(<<documents[1].page_content[i]>>, documents[1].metadata)]
       \o split_documents(Tail(documents))

\* Mutant of upload_try: process_document without its final else branch,
\* so that an unknown extension reaches the loader.
upload_try_unchecked_type(form, io) ==
  IF ~keywords_ok(form)
    THEN [pc |-> "finally", response |-> except_Exception("400: Invalid keywords format"),
          written |-> "nothing"]
  ELSE IF io = "open_fails"
    THEN [pc |-> "finally", response |-> except_Exception("OSError"), written |-> "nothing"]
  ELSE IF io = "copy_fails"
    THEN [pc |-> "finally", response |-> except_Exception("OSError"), written |-> "partial"]
  ELSE IF ~join_ok(form)
    THEN [pc |-> "finally", response |-> except_Exception("TypeError"), written |-> "file"]
  ELSE [pc |-> "load", response |-> NoResponse, written |-> "file"]

\* Lines 94-114 up to the choice of the loader: where the handler goes
\* next, its pending response, and what it wrote under file_path.
\* io is the outcome of open() and shutil.copyfileobj().
upload_try(form, io) ==
  IF ~keywords_ok(form)
    THEN [pc |-> "finally", response |-> except_Exception("400: Invalid keywords format"),
          written |-> "nothing"]
  ELSE IF io = "open_fails"
    THEN [pc |-> "finally", response |-> except_Exception("OSError"), written |-> "nothing"]
  ELSE IF io = "copy_fails"
    THEN [pc |-> "finally", response |-> except_Exception("OSError"), written |-> "partial"]
  ELSE IF ~join_ok(form)
    THEN [pc |-> "finally", response |-> except_Exception("TypeError"), written |-> "file"]
  ELSE IF loader_for(file_extension(form)) = "ValueError"
    THEN [pc |-> "finally", response |-> except_Exception("Unsupported file type"),
          written |-> "file"]
  ELSE [pc |-> "load", response |-> NoResponse, written |-> "file"]

WriteOutcomes == {"ok", "open_fails", "copy_fails"}

\* POST /upload arrives at an idle worker: validation of the form, then
\* the handler up to the call of loader.load().
upload_file(w, forms) ==
  /\ pc[w] = "idle"
  /\ Len(vectorstore) < MaxStored
  /\ \E form \in forms, io \in WriteOutcomes :
       /\ request' = [request EXCEPT ![w] = [kind |-> "upload", form |-> form]]
       /\ IF form.title = Missing
            THEN /\ pc' = [pc EXCEPT ![w] = "done"]
                 /\ response' = [response EXCEPT ![w] = validation_error]
                 /\ UNCHANGED temp_uploads
            ELSE LET t == upload_try(form, io) IN
                 /\ pc' = [pc EXCEPT ![w] = t.pc]
                 /\ response' = [response EXCEPT ![w] = t.response]
                 /\ temp_uploads' =
                      IF t.written = "nothing" THEN temp_uploads
                      ELSE [p \in DOMAIN temp_uploads \cup {file_path(form)} |->
                              IF p = file_path(form)
                                THEN (IF t.written = "file" THEN form.file.content ELSE "partial")
                                ELSE temp_uploads[p]]
       /\ failed' = [failed EXCEPT ![w] =
             IF form.title # Missing /\ keywords_ok(form) /\ io # "ok" THEN "OSError" ELSE ""]
  /\ UNCHANGED <<llm, embeddings, vectorstore, docs, context, sources, inserted, calls, invoked>>

\* The outcomes of loader.load() on the file now at path: the file may be
\* gone or cut short (another process removed or rewrote it), and a loader
\* may reject the bytes it reads.
load_outcomes(path) ==
  IF path \notin DOMAIN temp_uploads THEN {"FileNotFoundError"}
  ELSE IF temp_uploads[path] = "partial" THEN {"LoaderError"}
  ELSE {"ok", "LoaderError"}

\* process_document from loader.load() to split_documents: the chunks docs
chunks_of(content, form) == split_documents(annotate(load(content), custom_metadata(form)))

\* documents = loader.load(); metadata update; split_documents
loader_load(w) ==
  /\ pc[w] = "load"
  /\ calls' = [calls EXCEPT ![w] = @ \cup {"loader"}]
  /\ \E out \in load_outcomes(file_path(request[w].form)) :
       IF out = "ok"
         THEN /\ docs' = [docs EXCEPT ![w] =
                    chunks_of(temp_uploads[file_path(request[w].form)], request[w].form)]
              /\ pc' = [pc EXCEPT ![w] = "add_documents"]
              /\ UNCHANGED <<response, failed>>
         ELSE /\ response' = [response EXCEPT ![w] = except_Exception(out)]
              /\ pc' = [pc EXCEPT ![w] = "finally"]
              /\ failed' = [failed EXCEPT ![w] = IF out = "LoaderError" THEN out ELSE @]
              /\ UNCHANGED docs
  /\ UNCHANGED <<llm, embeddings, vectorstore, temp_uploads, request, context, sources,
                 inserted, invoked>>

\* The outcomes of vectorstore.add_documents(docs): it embeds every chunk
\* and then persists the batch; it raises, storing nothing, when the store
\* has no embedding function, when the embedding service fails on a chunk,
\* or when the persistence layer fails.
add_outcomes ==
  IF ~embeddings THEN {"EmbeddingServiceUnavailable"}
  ELSE {"ok", "EmbeddingServiceUnavailable", "StorageError"}

\* vectorstore.add_documents(docs), then the return of the success body
add_documents(w) ==
  /\ pc[w] = "add_documents"
  /\ calls' = [calls EXCEPT ![w] = @ \cup {"vectorstore"}]
  /\ \E out \in add_outcomes :
       IF out = "ok"
         THEN /\ vectorstore' = vectorstore \o docs[w]
              /\ inserted' = [inserted EXCEPT ![w] = @ \o docs[w]]
              /\ response' = [response EXCEPT ![w] = upload_success]
              /\ UNCHANGED failed
         ELSE /\ response' = [response EXCEPT ![w] = except_Exception(out)]
              /\ failed' = [failed EXCEPT ![w] = out]
              /\ UNCHANGED <<vectorstore, inserted>>
  /\ pc' = [pc EXCEPT ![w] = "finally"]
  /\ UNCHANGED <<llm, embeddings, temp_uploads, request, docs, context, sources, invoked>>

\* Mutant of finally_exists: a handler without the finally block.
finally_skipped(w) ==
  /\ pc[w] = "finally"
  /\ pc' = [pc EXCEPT ![w] = "done"]
  /\ UNCHANGED <<llm, embeddings, vectorstore, temp_uploads, request, docs, context,
                 sources, response, inserted, calls, invoked, failed>>

\* finally: if os.path.exists(file_path)
finally_exists(w) ==
  /\ pc[w] = "finally"
  /\ pc' = [pc EXCEPT ![w] =
        IF file_path(request[w].form) \in DOMAIN temp_uploads THEN "remove" ELSE "done"]
  /\ UNCHANGED <<llm, embeddings, vectorstore, temp_uploads, request, docs, context,
                 sources, response, inserted, calls, invoked, failed>>

\* finally: os.remove(file_path); it raises FileNotFoundError, which
\* replaces the pending response, when the file went away after the test
finally_remove(w) ==
  /\ pc[w] = "remove"
  /\ IF file_path(request[w].form) \in DOMAIN temp_uploads
       THEN /\ temp_uploads' = [p \in DOMAIN temp_uploads \ {file_path(request[w].form)} |->
                                  temp_uploads[p]]
            /\ UNCHANGED response
       ELSE /\ response' = [response EXCEPT ![w] = unhandled("FileNotFoundError")]
            /\ UNCHANGED temp_uploads
  /\ pc' = [pc EXCEPT ![w] = "done"]
  /\ UNCHANGED <<llm, embeddings, vectorstore, request, docs, context, sources, inserted,
                 calls, invoked, failed>>

\* The response is sent; the worker forgets the request and is idle again.
respond(w) ==
  /\ pc[w] = "done"
  /\ pc' = [pc EXCEPT ![w] = "idle"]
  /\ request' = [request EXCEPT ![w] = NoRequest]
  /\ docs' = [docs EXCEPT ![w] = << >>]
  /\ context' = [context EXCEPT ![w] = << >>]
  /\ sources' = [sources EXCEPT ![w] = << >>]
  /\ response' = [response EXCEPT ![w] = NoResponse]
  /\ inserted' = [inserted EXCEPT ![w] = << >>]
  /\ calls' = [calls EXCEPT ![w] = {}]
  /\ invoked' = [invoked EXCEPT ![w] = << >>]
  /\ failed' = [failed EXCEPT ![w] = ""]
  /\ UNCHANGED <<llm, embeddings, vectorstore, temp_uploads>>

\* ---------------------------------------------------------------------
\* chat_with_docs
\* ---------------------------------------------------------------------

\* The distance of a stored chunk from the query in the embedding space, a
\* fixed function of the two texts.
Distance(q, doc) ==
  LET t == doc.page_content[1]
      rank == IF t = "s1" THEN 1 ELSE IF t = "s2" THEN 2 ELSE 3
  IN  IF q = "q1" THEN rank ELSE 4 - rank

\* retriever.invoke(query.text) with search_kwargs k: the min(k, N) stored
\* records nearest to the query, nearest first; records at the same
\* distance come in either order.
similarity_search(q, k) ==
  LET n == Len(vectorstore)
      m == Min(k, n)
      picks == {f \in [1..m -> 1..n] :
                  /\ \A i, j \in 1..m : i # j => f[i] # f[j]
                  /\ \A i, j \in 1..m :
                       i < j => Distance(q, vectorstore[f[i]]) <= Distance(q, vectorstore[f[j]])
                  /\ \A x \in 1..n : (\A i \in 1..m : f[i] # x) =>
                       \A i \in 1..m : Distance(q, vectorstore[f[i]]) <= Distance(q, vectorstore[x])}
  IN  {[i \in 1..m |-> vectorstore[f[i]]] : f \in picks}

\* Mutant of header_of: the Link line written unconditionally.
header_always_link(metadata) ==
  <<"--- Source Document ---", "Title: " \o Get(metadata, "title", "N/A"),
    "Link: " \o Get(metadata, "link", None)>>
  \o (IF Truthy(Get(metadata, "keywords", None))
        THEN <<"Keywords: " \o Get(metadata, "keywords", None)>> ELSE << >>)
  \o <<"-----------------------", "">>

\* The header string of one retrieved document, line by line.
header_of(metadata) ==
  <<"--- Source Document ---", "Title: " \o Get(metadata, "title", "N/A")>>
  \o (IF Truthy(Get(metadata, "link", None))
        THEN <<"Link: " \o Get(metadata, "link", None)>> ELSE << >>)
  \o (IF Truthy(Get(metadata, "keywords", None))
        THEN <<"Keywords: " \o Get(metadata, "keywords", None)>> ELSE << >>)
  \o <<"-----------------------", "">>

\* the loop that builds context_with_metadata
context_with_metadata(retrieved_docs) ==
  [i \in 1..Len(retrieved_docs) |->
     Document(header_of(retrieved_docs[i].metadata) \o retrieved_docs[i].page_content,
              retrieved_docs[i].metadata)]

\* One value of sources_dict.
Source(metadata, filename) ==
  [title |-> Get(metadata, "title", filename), link |-> Get(metadata, "link", None),
   filename |-> filename]

\* The loop over retrieved_docs that fills sources_dict (a dict keeps its
\* keys in insertion order); acc is the list of its values so far.
RECURSIVE sources_dict(_, _)
sources_dict(retrieved_docs, acc) ==
  IF Len(retrieved_docs) = 0 THEN acc
  ELSE LET filename == Get(retrieved_docs[1].metadata, "filename", "unknown") IN
       IF \E i \in 1..Len(acc) : acc[i].filename = filename
         THEN sources_dict(Tail(retrieved_docs), acc)
         ELSE sources_dict(Tail(retrieved_docs),
                           Append(acc, Source(retrieved_docs[1].metadata, filename)))

\* Mutant of sources_of: a list filled per result, without the dict.
sources_undeduplicated(retrieved_docs) ==
  [i \in 1..Len(retrieved_docs) |->
     Source(retrieved_docs[i].metadata, Get(retrieved_docs[i].metadata, "filename", "unknown"))]

\* sources = [Source(**data) for data in sources_dict.values()]
sources_of(retrieved_docs) == sources_dict(retrieved_docs, << >>)

service_unavailable == [status |-> 503, detail |-> "LLM service is not available.", sources |-> << >>]

\* Mutant of llm_guard: the handler without the guard.
llm_guard_absent == FALSE

\* if not llm: raise HTTPException(503)
llm_guard == ~llm

\* The outcomes of the retriever's call: the query is embedded first.
retrieve_outcomes == IF embeddings THEN {"ok", "EmbeddingServiceUnavailable"}
                     ELSE {"EmbeddingServiceUnavailable"}

\* POST /chat arrives at an idle worker: the handler up to the call of
\* document_chain.invoke (guard, retrieval, context and sources).
chat_with_docs(w) ==
  /\ pc[w] = "idle"
  /\ \E q \in Queries :
       /\ request' = [request EXCEPT ![w] = [kind |-> "chat", text |-> q]]
       /\ IF llm_guard
            THEN /\ response' = [response EXCEPT ![w] = service_unavailable]
                 /\ pc' = [pc EXCEPT ![w] = "done"]
                 /\ UNCHANGED <<docs, context, sources, calls, failed>>
            ELSE /\ calls' = [calls EXCEPT ![w] = @ \cup {"retriever"}]
                 /\ \E out \in retrieve_outcomes :
                      IF out = "ok"
                        THEN \E retrieved_docs \in similarity_search(q, K) :
                               /\ docs' = [docs EXCEPT ![w] = retrieved_docs]
                               /\ context' = [context EXCEPT ![w] =
                                     context_with_metadata(retrieved_docs)]
                               /\ sources' = [sources EXCEPT ![w] = sources_of(retrieved_docs)]
                               /\ pc' = [pc EXCEPT ![w] = "invoke"]
                               /\ UNCHANGED <<response, failed>>
                        ELSE /\ response' = [response EXCEPT ![w] = unhandled(out)]
                             /\ pc' = [pc EXCEPT ![w] = "done"]
                             /\ failed' = [failed EXCEPT ![w] = out]
                             /\ UNCHANGED <<docs, context, sources>>
  /\ UNCHANGED <<llm, embeddings, vectorstore, temp_uploads, inserted, invoked>>

\* QueryResponse(response=response_text, sources=sources), sent with 200
QueryResponse(response_text, srcs) == [status |-> 200, detail |-> response_text, sources |-> srcs]

\* The outcomes of the generation service.
invoke_outcomes == {"ok", "GenerationServiceUnavailable"}

\* Mutant of chain_invoke: a short cut that answers without the
\* generator when nothing was retrieved.
chain_invoke_skips_empty(w) ==
  /\ pc[w] = "invoke"
  /\ IF docs[w] = << >>
       THEN /\ response' = [response EXCEPT ![w] = QueryResponse("I don't know", << >>)]
            /\ UNCHANGED <<invoked, failed>>
       ELSE /\ invoked' = [invoked EXCEPT ![w] = Append(@, context[w])]
            /\ \E out \in invoke_outcomes :
                 /\ response' = [response EXCEPT ![w] =
                       IF out = "ok" THEN QueryResponse("answer", sources[w]) ELSE unhandled(out)]
                 /\ failed' = [failed EXCEPT ![w] = IF out = "ok" THEN @ ELSE out]
  /\ pc' = [pc EXCEPT ![w] = "done"]
  /\ UNCHANGED <<llm, embeddings, vectorstore, temp_uploads, request, docs, context,
                 sources, inserted, calls>>

\* response_text = document_chain.invoke(...); return QueryResponse(...)
chain_invoke(w) ==
  /\ pc[w] = "invoke"
  /\ invoked' = [invoked EXCEPT ![w] = Append(@, context[w])]
  /\ \E out \in invoke_outcomes :
       /\ response' = [response EXCEPT ![w] =
             IF out = "ok" THEN QueryResponse("answer", sources[w]) ELSE unhandled(out)]
       /\ failed' = [failed EXCEPT ![w] = IF out = "ok" THEN @ ELSE out]
  /\ pc' = [pc EXCEPT ![w] = "done"]
  /\ UNCHANGED <<llm, embeddings, vectorstore, temp_uploads, request, docs, context,
                 sources, inserted, calls>>

\* ---------------------------------------------------------------------
\* Specifications
\* ---------------------------------------------------------------------

\* Module import: the try block builds both Ollama components or, on an
\* exception, sets both to None; the store starts empty and the upload
\* directory exists and is empty.
Start(n) ==
  /\ llm \in BOOLEAN
  /\ embeddings = llm
  /\ vectorstore = << >>
  /\ temp_uploads = EmptyMap
  /\ pc = [w \in 1..n |-> "idle"]
  /\ request = [w \in 1..n |-> NoRequest]
  /\ docs = [w \in 1..n |-> << >>]
  /\ context = [w \in 1..n |-> << >>]
  /\ sources = [w \in 1..n |-> << >>]
  /\ response = [w \in 1..n |-> NoResponse]
  /\ inserted = [w \in 1..n |-> << >>]
  /\ calls = [w \in 1..n |-> {}]
  /\ invoked = [w \in 1..n |-> << >>]
  /\ failed = [w \in 1..n |-> ""]

Init == Start(1)

InitMW == Start(MaxWorkers)

Next ==
  \/ \E w \in Workers : upload_file(w, UploadForms)
  \/ \E w \in Workers : loader_load(w)
  \/ \E w \in Workers : add_documents(w)
  \/ \E w \in Workers : finally_exists(w)
  \/ \E w \in Workers : finally_remove(w)
  \/ \E w \in Workers : chat_with_docs(w)
  \/ \E w \in Workers : chain_invoke(w)
  \/ \E w \in Workers : respond(w)

NextMW ==
  \/ \E w \in Workers : upload_file(w, ConcurrentForms)
  \/ \E w \in Workers : loader_load(w)
  \/ \E w \in Workers : add_documents(w)
  \/ \E w \in Workers : finally_exists(w)
  \/ \E w \in Workers : finally_remove(w)
  \/ \E w \in Workers : respond(w)

\* one server process
Spec == Init /\ [][Next]_vars

\* several server processes over the same store and upload directory
SpecMW == InitMW /\ [][NextMW]_vars

\* ---------------------------------------------------------------------
\* Properties
\* ---------------------------------------------------------------------

Range(seq) == {seq[i] : i \in 1..Len(seq)}

Uploading(w) == request[w].kind = "upload"
Chatting(w) == request[w].kind = "chat"

\* the chat request of w has returned a QueryResponse
ChatReturned(w) == Chatting(w) /\ pc[w] = "done" /\ response[w].status = 200

FilenameOf(doc) == Get(doc.metadata, "filename", "unknown")

\* the position of the first result with this filename
FirstSeen(results, filename) ==
  CHOOSE i \in 1..Len(results) :
    /\ FilenameOf(results[i]) = filename
    /\ \A j \in 1..(i - 1) : FilenameOf(results[j]) # filename

\* C1: the citations returned by chat_with_docs hold exactly one entry per
\* distinct filename among the retrieved results, each with the title and
\* link of the first result of that filename, in first-seen order.
CitationsDeduplicated ==
  \A w \in Workers : ChatReturned(w) =>
    LET results == docs[w]
        cites == response[w].sources
    IN  /\ \A i \in 1..Len(results) :
             Cardinality({j \in 1..Len(cites) : cites[j].filename = FilenameOf(results[i])}) = 1
        /\ \A j \in 1..Len(cites) :
             /\ \E i \in 1..Len(results) : FilenameOf(results[i]) = cites[j].filename
             /\ cites[j].title = results[FirstSeen(results, cites[j].filename)].metadata["title"]
             /\ cites[j].link = results[FirstSeen(results, cites[j].filename)].metadata["link"]
        /\ \A j1, j2 \in 1..Len(cites) :
             j1 < j2 => FirstSeen(results, cites[j1].filename) < FirstSeen(results, cites[j2].filename)

\* C1 witness: a chat returned citations for results of which two share a
\* filename and differ in title.
CitationsDeduplicatedWitness ==
  \E w \in Workers :
    /\ ChatReturned(w)
    /\ \E i, j \in 1..Len(docs[w]) :
         /\ i < j
         /\ FilenameOf(docs[w][i]) = FilenameOf(docs[w][j])
         /\ docs[w][i].metadata["title"] # docs[w][j].metadata["title"]
    /\ Len(response[w].sources) = 1

\* the caller-input errors of an upload form
CallerError(form) ==
  \/ form.title = Missing
  \/ form.file.filename[Len(form.file.filename)] \notin {"pdf", "PDF", "docx", "DOCX", "md", "MD"}
  \/ form.keywords.json # "list"
  \/ \E i \in 1..Len(form.keywords.items) : form.keywords.items[i].t # "str"

\* C2: an upload with a caller-input error is rejected without any call of
\* a document loader, the embedding service or the vector store, and adds
\* nothing to the vector store.
CallerErrorFailsFast ==
  \A w \in Workers : (Uploading(w) /\ CallerError(request[w].form)) =>
    /\ calls[w] = {}
    /\ inserted[w] = << >>
    /\ pc[w] \notin {"load", "add_documents"}
    /\ pc[w] = "done" => response[w].status \in {422, 500}

\* C2 witness: an upload of an unsupported file type, otherwise well
\* formed, has been answered.
CallerErrorFailsFastWitness ==
  \E w \in Workers :
    /\ Uploading(w) /\ pc[w] = "done"
    /\ request[w].form.file.filename = CTxt
    /\ request[w].form.title # Missing
    /\ request[w].form.keywords = KwTwo
    /\ response[w].status = 500

\* the status upload_file reports for a failure of the embedding service or
\* of the storage layer
InfrastructureStatus == {except_Exception(e).status : e \in {"EmbeddingServiceUnavailable", "StorageError"}}

\* C3: the status reported for an unsupported file type or a malformed
\* keyword list is never the status reported for an infrastructure failure.
CallerErrorDistinguishable ==
  \A w \in Workers :
    (/\ Uploading(w) /\ pc[w] = "done"
     /\ request[w].form.title # Missing
     /\ CallerError(request[w].form))
    => response[w].status \notin InfrastructureStatus

\* C4: uploads that run side by side are independent; in a run where no
\* external service fails, where an upload running alone succeeds with the
\* chunks of its own file, each of them succeeds with exactly the chunks of
\* its own file.
UploadsIndependent ==
  \A w \in Workers :
    (Uploading(w) /\ pc[w] = "done" /\ \A v \in Workers : failed[v] = "") =>
      /\ response[w] = upload_success
      /\ inserted[w] = chunks_of(request[w].form.file.content, request[w].form)

\* C5: an upload whose embedding call failed never reports success and
\* leaves none of its chunks stored.
EmbeddingFailureFailsUpload ==
  \A w \in Workers : (Uploading(w) /\ failed[w] = "EmbeddingServiceUnavailable") =>
    /\ response[w].status = 500
    /\ inserted[w] = << >>

\* C5 witness: with the embedding service not initialised at start-up, an
\* upload reached the vector store and has been answered.
EmbeddingFailureFailsUploadWitness ==
  \E w \in Workers :
    /\ Uploading(w) /\ pc[w] = "done"
    /\ ~embeddings
    /\ "vectorstore" \in calls[w]
    /\ failed[w] = "EmbeddingServiceUnavailable"

\* the upload of w has been answered with success
UploadSucceeded(w) == Uploading(w) /\ pc[w] = "done" /\ response[w].status = 200

\* C6 as stated: after a successful upload all chunks stored for the
\* document carry one and the same metadata mapping.
ChunkMetadataIdentical ==
  \A w \in Workers : UploadSucceeded(w) =>
    \A i, j \in 1..Len(inserted[w]) : inserted[w][i].metadata = inserted[w][j].metadata

\* the keywords of a form joined with "; ", written out
DeclaredKeywords(form) == IF form.keywords = KwTwo THEN "finance; 2024" ELSE ""

\* C6 amended: after a successful upload every chunk stored for the
\* document carries the declared title, link, filename and "; "-joined
\* keywords.
ChunkMetadataDeclared ==
  \A w \in Workers : UploadSucceeded(w) =>
    \A i \in 1..Len(inserted[w]) :
      LET m == inserted[w][i].metadata
          form == request[w].form
      IN  /\ {"title", "link", "filename", "keywords"} \subseteq DOMAIN m
          /\ m["title"] = form.title
          /\ m["link"] = form.link
          /\ m["filename"] = Name(form.file.filename)
          /\ m["keywords"] = DeclaredKeywords(form)

\* C6 witness: a successful upload of a file the loader split into two
\* pages, with two keywords.
ChunkMetadataDeclaredWitness ==
  \E w \in Workers :
    /\ UploadSucceeded(w)
    /\ request[w].form.file.content = "pdf_2pages"
    /\ request[w].form.keywords = KwTwo
    /\ Len(inserted[w]) = 2
    /\ inserted[w][1].metadata["page"] # inserted[w][2].metadata["page"]

\* C7: with the language model not initialised a chat request ends with
\* 503, without a retrieval and without a generation call.
NoLlmMeansUnavailable ==
  \A w \in Workers : (Chatting(w) /\ ~llm) =>
    /\ calls[w] = {}
    /\ invoked[w] = << >>
    /\ docs[w] = << >>
    /\ pc[w] = "done"
    /\ response[w].status = 503

\* C7 witness: a chat request was answered while llm is None.
NoLlmMeansUnavailableWitness ==
  \E w \in Workers : Chatting(w) /\ ~llm /\ pc[w] = "done"

\* C8: a chat against an empty store whose service calls all succeed
\* retrieves nothing, invokes the generator exactly once, with an empty
\* context, and returns a normal response without citations.
EmptyStoreChat ==
  \A w \in Workers :
    (Chatting(w) /\ llm /\ vectorstore = << >> /\ pc[w] = "done" /\ failed[w] = "") =>
      /\ docs[w] = << >>
      /\ Len(invoked[w]) = 1
      /\ invoked[w][1] = << >>
      /\ response[w] = QueryResponse("answer", << >>)

\* C8 witness: such a chat has been answered.
EmptyStoreChatWitness ==
  \E w \in Workers :
    /\ Chatting(w) /\ llm /\ vectorstore = << >> /\ pc[w] = "done" /\ failed[w] = ""
    /\ "retriever" \in calls[w]

\* the lines a Link or a Keywords line of a header can be
LinkLines == {"Link: " \o v : v \in Links}
KeywordsLines == {"Keywords: " \o v : v \in {None, "", "finance; 2024"}}

\* C9: the context handed to the generator has one block per retrieved
\* result, in retrieval order; a block is a header followed by the result's
\* own text; the header has a Title line, a Link line exactly when the link
\* is non-empty and a Keywords line exactly when the keywords are non-empty.
ContextBlocks ==
  \A w \in Workers : (Chatting(w) /\ Len(invoked[w]) > 0) =>
    LET ctx == invoked[w][1]
        results == docs[w]
    IN  /\ Len(invoked[w]) = 1
        /\ Len(ctx) = Len(results)
        /\ \A i \in 1..Len(results) :
             LET block == ctx[i].page_content
                 text == results[i].page_content
                 n == Len(block) - Len(text)
                 header == SubSeq(block, 1, n)
                 m == results[i].metadata
             IN  /\ n > 0
                 /\ SubSeq(block, n + 1, Len(block)) = text
                 /\ ("Title: " \o m["title"]) \in Range(header)
                 /\ IF m["link"] # None /\ m["link"] # ""
                      THEN Range(header) \cap LinkLines = {"Link: " \o m["link"]}
                      ELSE Range(header) \cap LinkLines = {}
                 /\ IF m["keywords"] # None /\ m["keywords"] # ""
                      THEN Range(header) \cap KeywordsLines = {"Keywords: " \o m["keywords"]}
                      ELSE Range(header) \cap KeywordsLines = {}

\* C9 witness: the generator was invoked with two blocks, one of a result
\* with a link and no keywords, one of a result with keywords and no link.
ContextBlocksWitness ==
  \E w \in Workers :
    /\ Chatting(w) /\ Len(invoked[w]) = 1 /\ Len(docs[w]) >= 2
    /\ \E i, j \in 1..Len(docs[w]) :
         /\ docs[w][i].metadata["link"] = "http://l" /\ docs[w][i].metadata["keywords"] = ""
         /\ docs[w][j].metadata["link"] = None /\ docs[w][j].metadata["keywords"] = "finance; 2024"

\* C10: once an upload request has finished, the temporary file it wrote
\* is gone, and between requests the upload directory is empty.
TempFileRemoved ==
  \A w \in Workers :
    /\ (Uploading(w) /\ pc[w] = "done") => file_path(request[w].form) \notin DOMAIN temp_uploads
    /\ pc[w] \in {"idle", "done"} => DOMAIN temp_uploads = {}

\* C10 witness: an upload that failed in the loader, after its file was
\* written, has finished.
TempFileRemovedWitness ==
  \E w \in Workers :
    /\ Uploading(w) /\ pc[w] = "done"
    /\ failed[w] = "LoaderError"
    /\ vectorstore # << >>

====
